---------------------------- MODULE Spec2Model ----------------------------
(***************************************************************************)
(* Conversation state machine of the personal-trainer bot (src/bot.js).    *)
(*                                                                         *)
(* One update (a text message or a button press) is one step.  A text      *)
(* update runs down the middleware chain in registration order: bot.start, *)
(* the menu bot.hears handlers, the state router, the admin-reply router,  *)
(* /admin, the admin bot.hears handlers, the admin fallback router, the    *)
(* privacy handler, /report, the report router and the final fallback.     *)
(* The first handler that matches and does not call next() ends the chain. *)
(*                                                                         *)
(* Menu labels are written without their emoji prefix ("Log Meal" is the   *)
(* label of bot.hears('+ Log Meal')).                                      *)
(***************************************************************************)
EXTENDS Integers, Sequences, FiniteSets, TLC

VARIABLES
    states,         \* Map telegramId -> { step, data }           (line 195)
    adminSessions,  \* Set of telegramIds                         (line 196)
    users,          \* the User collection, keyed by telegramId   (line 105)
    relays,         \* the MessageRelay collection                (line 143)
    content,        \* sizes of Exercise / Workout / Challenge    (lines 120-153)
    nextId,         \* next fresh profile id (uuidv4)             (line 66)
    reply,          \* what the last update's handler replied to its sender
    sends,          \* bot.telegram.sendMessage calls of the last update
    sender,         \* ctx.from.id of the last update, 0 for a scheduled job
    turns,          \* updates handled so far
    dbDown,         \* do the persistence collaborator's writes reject?
    inflight,       \* onboarding turns suspended at an await, oldest first
    ADMIN_PASS      \* process.env.ADMIN_PASS || null            (line 49)

vars ==
    <<states, adminSessions, users, relays, content, nextId, reply, sends, sender,
      turns, dbDown, inflight, ADMIN_PASS>>

---------------------------------------------------------------------------
(* Bounds and the chat population. *)

MaxTurns == 3
MaxProfileTurns == 7
MaxAdminTurns == 7
MaxBroadcastTurns == 7
MaxFailureTurns == 5
MaxRaceTurns == 5
MaxInFlight == 2
MaxEditorTurns == 6
MaxRelayTurns == 7

Users == {1, 2}

FirstName(u) == IF u = 1 THEN "Ann" ELSE "Bob"

\* The values of process.env.ADMIN_PASS: a configured secret, or none.
Secret == "s3cret"
Null == "<null>"

---------------------------------------------------------------------------
(* Texts a chat can send. *)

MenuLabels ==
    { "Profile", "Edit Profile", "Switch Profile", "Add Profile", "Delete Profile",
      "Workouts", "Today", "My Plan", "Browse Exercises",
      "Nutrition", "Log Meal", "View Meals", "Macro Advice", "Water Tracker",
      "Progress", "Reminders", "Set Daily Workout", "Set Water Reminders",
      "Remove Reminders", "Trainer", "Challenges", "Settings", "Help" }

AdminLabels ==
    { "Logout Admin", "User Mgmt", "Promote User", "Demote User", "Remove User",
      "Content Mgmt", "Create Exercise", "Create Workout", "Create Challenge",
      "View Content", "Analytics", "Broadcast", "Feedback" }

\* Buttons the keyboards offer that no handler is registered for.
OrphanLabels == { "Back to Main", "Language", "Notifications" }

Commands == { "/start", "/admin", "/report" }

FieldNames ==
    { "name", "age", "weight", "height", "fitnessLevel", "goal", "targetDate",
      "equipment", "timeAvailability" }

FreeTexts ==
    { "1", "2", "abc", "s3cret", " s3cret ", "beginner", "2030-01-31", "18:30",
      "9:30", "09:00, 12:00", "off", "600 oats", "{\"name\":\"x\"}",
      "{\"name\":\"x\",\"startDate\":\"2030-01-01\",\"endDate\":\"2030-02-01\"}",
      "x | core" }

Texts ==
    MenuLabels \cup AdminLabels \cup OrphanLabels \cup Commands
        \cup { "Request Data Deletion" } \cup FieldNames \cup FreeTexts

---------------------------------------------------------------------------
(* JavaScript values and conversions, on the texts above. *)

NaN == -1
Undefined == -2

\* String.prototype.trim
Trim(t) == IF t = " s3cret " THEN "s3cret" ELSE t

\* Number(text): the whole string must be a numeric literal.
Number(t) ==
    CASE t = "1" -> 1
      [] t = "2" -> 2
      [] t = "600" -> 600
      [] OTHER -> NaN

isNaN(n) == n = NaN

\* String.prototype.toLowerCase
toLowerCase(t) ==
    CASE t = "fitnessLevel" -> "fitnesslevel"
      [] t = "targetDate" -> "targetdate"
      [] t = "timeAvailability" -> "timeavailability"
      [] t = "Back to Main" -> "back to main"
      [] t = "Language" -> "language"
      [] t = "Notifications" -> "notifications"
      [] t = "Logout Admin" -> "logout admin"
      [] t = "User Mgmt" -> "user mgmt"
      [] t = "Promote User" -> "promote user"
      [] t = "Demote User" -> "demote user"
      [] t = "Remove User" -> "remove user"
      [] t = "Content Mgmt" -> "content mgmt"
      [] t = "Create Exercise" -> "create exercise"
      [] t = "Create Workout" -> "create workout"
      [] t = "Create Challenge" -> "create challenge"
      [] t = "View Content" -> "view content"
      [] t = "Analytics" -> "analytics"
      [] t = "Broadcast" -> "broadcast"
      [] t = "Feedback" -> "feedback"
      [] t = "Request Data Deletion" -> "request data deletion"
      [] OTHER -> t

\* text.split(' ')
SplitSpace(t) ==
    CASE t = "600 oats" -> <<"600", "oats">>
      [] t = "09:00, 12:00" -> <<"09:00,", "12:00">>
      [] t = "x | core" -> <<"x", "|", "core">>
      [] t = "Back to Main" -> <<"Back", "to", "Main">>
      [] t = "Logout Admin" -> <<"Logout", "Admin">>
      [] t = "User Mgmt" -> <<"User", "Mgmt">>
      [] t = "Promote User" -> <<"Promote", "User">>
      [] t = "Demote User" -> <<"Demote", "User">>
      [] t = "Remove User" -> <<"Remove", "User">>
      [] t = "Content Mgmt" -> <<"Content", "Mgmt">>
      [] t = "Create Exercise" -> <<"Create", "Exercise">>
      [] t = "Create Workout" -> <<"Create", "Workout">>
      [] t = "Create Challenge" -> <<"Create", "Challenge">>
      [] t = "View Content" -> <<"View", "Content">>
      [] t = "Request Data Deletion" -> <<"Request", "Data", "Deletion">>
      [] OTHER -> <<t>>

\* parts.slice(1).join(' ')
JoinRest(t) ==
    CASE t = "600 oats" -> "oats"
      [] t = "09:00, 12:00" -> "12:00"
      [] t = "x | core" -> "| core"
      [] t = "Back to Main" -> "to Main"
      [] t = "Logout Admin" -> "Admin"
      [] t = "User Mgmt" -> "Mgmt"
      [] t = "Promote User" -> "User"
      [] t = "Demote User" -> "User"
      [] t = "Remove User" -> "User"
      [] t = "Content Mgmt" -> "Mgmt"
      [] t = "Create Exercise" -> "Exercise"
      [] t = "Create Workout" -> "Workout"
      [] t = "Create Challenge" -> "Challenge"
      [] t = "View Content" -> "Content"
      [] t = "Request Data Deletion" -> "Data Deletion"
      [] OTHER -> ""

\* text.split(',').map(s=>s.trim()).filter(Boolean)
SplitComma(t) ==
    IF t = "09:00, 12:00" THEN <<"09:00", "12:00">> ELSE <<t>>

\* /^\d{1,2}:\d{2}$/.test(t)
IsTime(t) == t \in { "18:30", "9:30", "09:00", "12:00" }

\* moment(text, 'YYYY-MM-DD', true).isValid()
IsDate(t) == t = "2030-01-31"

\* JSON.parse(t): the parsed value, or "SyntaxError".  A JSON number parses too.
JSONparse(t) ==
    CASE t = "{\"name\":\"x\"}" -> "object"
      [] t = "{\"name\":\"x\",\"startDate\":\"2030-01-01\",\"endDate\":\"2030-02-01\"}"
            -> "dated object"
      [] t \in { "1", "2" } -> "number"
      [] OTHER -> "SyntaxError"

\* t.split('|').map(s=>s.trim()).length
PipeParts(t) == IF t = "x | core" THEN 2 ELSE 1

---------------------------------------------------------------------------
(* Records. *)

\* states.get(id) of an id with no entry
NoState == [step |-> "", profileId |-> Undefined, profiles |-> <<>>,
            list |-> 0, toId |-> Undefined]

\* { step, data }: data carries at most one of profileId, profiles, list, toId
State(step) == [NoState EXCEPT !.step = step]

\* profileSub with the schema's defaults
NewProfile(id, name) ==
    [id |-> id, name |-> name, age |-> Undefined, weightKg |-> Undefined,
     heightCm |-> Undefined, fitnessLevel |-> "beginner", goal |-> "general fitness",
     goalTargetDate |-> "undefined", equipment |-> <<>>,
     timeAvailabilityMins |-> Undefined]

\* User.findOne(...) of a telegramId with no document
NoUser ==
    [exists |-> FALSE, profiles |-> <<>>, activeProfileId |-> Undefined,
     role |-> "user", weightHistory |-> <<>>, workoutsCompleted |-> <<>>,
     meals |-> <<>>, workoutDailyAt |-> "undefined", waterReminderTimes |-> <<>>,
     streak |-> 0, badges |-> <<>>, consent |-> TRUE]

\* User.create({ telegramId }) with userSchema's defaults
NewUser == [NoUser EXCEPT !.exists = TRUE]

\* seedContent(): three exercises and one workout
SeededContent == [exercises |-> 3, workouts |-> 1, challenges |-> 0]

\* Exercise.find().limit(30)
BrowseLimit == 30

Min(a, b) == IF a < b THEN a ELSE b

\* The index of the first profile with this id, or 0: Array.prototype.find
FindIndex(profiles, id) ==
    IF \E i \in 1..Len(profiles) : profiles[i].id = id
    THEN CHOOSE i \in 1..Len(profiles) :
            /\ profiles[i].id = id
            /\ \A j \in 1..(i - 1) : profiles[j].id # id
    ELSE 0

\* user.profiles.find(p=>p.id===id) || user.profiles[0], as an index; 0 if none
FindOrFirst(profiles, id) ==
    IF FindIndex(profiles, id) # 0 THEN FindIndex(profiles, id)
    ELSE IF Len(profiles) > 0 THEN 1 ELSE 0

\* User.findOne({ telegramId: id })
findOne(usr, id) == IF id \in Users THEN usr[id] ELSE NoUser

RemoveAt(s, i) == SubSeq(s, 1, i - 1) \o SubSeq(s, i + 1, Len(s))

---------------------------------------------------------------------------
(* Outcomes of a handler: the stores after it, its replies, its sends. *)

Base ==
    [states |-> states, adminSessions |-> adminSessions, users |-> users,
     relays |-> relays, content |-> content, nextId |-> nextId,
     reply |-> <<>>, sends |-> <<>>, sent |-> 0, failed |-> 0]

\* A rejected promise ends the handler: its last entry is the error.
Errors ==
    { "TypeError", "CastError", "ObjectParameterError", "ValidationError",
      "MongoError", "VersionError" }

Threw(r) == Len(r) > 0 /\ r[Len(r)] \in Errors

\* the handler's promise rejects with e; what it wrote before stays written,
\* and no statement after the rejection runs
Throw(o, e) == IF Threw(o.reply) THEN o ELSE [o EXCEPT !.reply = Append(@, e)]

\* states.set(peer, s): the entry written under the other chat's id
StatesSet_OtherKey(o, id, s) == [o EXCEPT !.states[3 - id] = s]

\* states.set(id, s) hoisted above the awaited write: it runs whether or not
\* the write rejects
StatesSet_BeforeSave(o, id, s) == [o EXCEPT !.states[id] = s]

\* states.set(id, s)
StatesSet(o, id, s) == IF Threw(o.reply) THEN o ELSE [o EXCEPT !.states[id] = s]

\* states.delete(id)
StatesDelete(o, id) ==
    IF Threw(o.reply) THEN o ELSE [o EXCEPT !.states[id] = NoState]

\* ctx.reply(r)
Reply(o, r) == IF Threw(o.reply) THEN o ELSE [o EXCEPT !.reply = Append(@, r)]

\* await user.save() / User.deleteOne(...): rejects while the store is down
Save(o, id, doc) ==
    IF Threw(o.reply) THEN o
    ELSE IF dbDown THEN Throw(o, "MongoError")
    ELSE [o EXCEPT !.users[id] = doc]

\* await Exercise.create / Workout.create / Challenge.create
ContentCreate(o, kind) ==
    IF Threw(o.reply) THEN o
    ELSE IF dbDown THEN Throw(o, "MongoError")
    ELSE [o EXCEPT !.content[kind] = @ + 1]

---------------------------------------------------------------------------
(* Welcome and the menu handlers, registered before the state router. *)

\* bot.start
BotStart(u) ==
    IF ~users[u].exists
    THEN LET p == [NewProfile(nextId, FirstName(u)) EXCEPT !.timeAvailabilityMins = 30]
             doc == [NewUser EXCEPT !.profiles = <<p>>, !.activeProfileId = p.id]
             o1 == [Save(Base, u, doc) EXCEPT !.nextId = nextId + 1]
             o2 == Reply(o1, "Welcome! Profile created. Please complete your profile.")
             o3 == StatesSet(o2, u, [State("edit_profile_full")
                                        EXCEPT !.profileId = doc.activeProfileId])
         IN  { Reply(o3, "Send your age (number) to complete profile setup.") }
    ELSE { Reply(Base, "Welcome back! Use the menu.") }

\* bot.hears('Profile')
HearsProfile(u) ==
    IF ~users[u].exists THEN { Reply(Base, "Please /start first.") }
    ELSE { Reply(Base, "Profiles") }

\* bot.hears('Edit Profile')
HearsEditProfile(u) ==
    LET doc == users[u]
        i == FindOrFirst(doc.profiles, doc.activeProfileId)
    IN  IF ~doc.exists THEN { Reply(Base, "Start with /start") }
        ELSE IF i = 0 THEN { Throw(Base, "TypeError") }
        ELSE { Reply(StatesSet(Base, u, [State("editing_profile_field")
                                            EXCEPT !.profileId = doc.profiles[i].id]),
                     "Which field do you want to edit?") }

\* bot.hears('Switch Profile')
HearsSwitchProfile(u) ==
    LET doc == users[u]
    IN  IF ~doc.exists THEN { Reply(Base, "Start with /start") }
        ELSE IF Len(doc.profiles) = 0 THEN { Reply(Base, "No profiles. Add one.") }
        ELSE { Reply(StatesSet(Base, u, [State("switch_profile")
                                            EXCEPT !.profiles = doc.profiles]),
                     "Send profile number to switch") }

\* bot.hears('Add Profile')
HearsAddProfile(u) ==
    LET doc == users[u]
        p == NewProfile(nextId, FirstName(u))
        doc2 == [doc EXCEPT !.profiles = Append(@, p), !.activeProfileId = p.id]
    IN  IF ~doc.exists THEN { Reply(Base, "Start with /start") }
        ELSE { Reply([Save(Base, u, doc2) EXCEPT !.nextId = nextId + 1],
                     "Added profile and switched to it.") }

\* bot.hears('Delete Profile')
HearsDeleteProfile(u) ==
    { Reply(StatesSet(Base, u, State("delete_profile")),
            "Send profile number to delete (cannot delete last profile).") }

\* bot.hears('Today')
HearsToday(u) ==
    LET doc == users[u]
    IN  IF content.workouts = 0 THEN { Reply(Base, "No workouts configured.") }
        ELSE IF ~doc.exists \/ FindOrFirst(doc.profiles, doc.activeProfileId) = 0
        THEN { Throw(Base, "TypeError") }
        ELSE { Reply(Base, "Today's Workout") }

\* bot.hears('My Plan')
HearsMyPlan(u) ==
    LET doc == users[u]
    IN  IF ~doc.exists \/ FindIndex(doc.profiles, doc.activeProfileId) = 0
        THEN { Throw(Base, "TypeError") }
        ELSE IF \E i \in 1..Len(doc.workoutsCompleted) :
                    doc.workoutsCompleted[i].profileId = doc.activeProfileId
        THEN { Reply(Base, "Showing recent workouts (from history).") }
        ELSE { Reply(Base, "Your 3-day starter plan") }

\* bot.hears('Browse Exercises')
HearsBrowseExercises(u) ==
    { Reply(StatesSet(Base, u, [State("browse_exercises")
                                  EXCEPT !.list = Min(content.exercises, BrowseLimit)]),
            "Exercise Library") }

\* bot.hears('Log Meal')
HearsLogMeal(u) ==
    { Reply(StatesSet(Base, u, State("log_meal")), "Send meal like: 600 oats + banana") }

\* bot.hears('View Meals')
HearsViewMeals(u) ==
    IF ~users[u].exists THEN { Throw(Base, "TypeError") }
    ELSE IF Len(users[u].meals) = 0 THEN { Reply(Base, "No meals logged yet.") }
    ELSE { Reply(Base, "Recent Meals") }

\* bot.hears('Macro Advice')
HearsMacroAdvice(u) ==
    LET doc == users[u]
    IN  IF ~doc.exists THEN { Throw(Base, "TypeError") }
        ELSE IF FindIndex(doc.profiles, doc.activeProfileId) = 0
        THEN { Reply(Base, "Set up profile first.") }
        ELSE { Reply(Base, "Estimated daily calories") }

\* bot.hears('Water Tracker')
HearsWaterTracker(u) ==
    { Reply(StatesSet(Base, u, State("set_water_times")),
            "Send water reminder times separated by comma or off to disable.") }

\* bot.hears('Progress')
HearsProgress(u) ==
    LET doc == users[u]
    IN  IF ~doc.exists THEN { Throw(Base, "TypeError") }
        ELSE IF \A i \in 1..Len(doc.weightHistory) :
                    doc.weightHistory[i].profileId # doc.activeProfileId
        THEN { Reply(Base, "No weight history yet.") }
        ELSE { Reply(Base, "Weight progress") }

\* bot.hears('Set Daily Workout')
HearsSetDailyWorkout(u) ==
    { Reply(StatesSet(Base, u, State("set_daily_reminder")),
            "Send time like 18:30 (HH:mm) to receive daily workout reminder.") }

\* bot.hears('Set Water Reminders')
HearsSetWaterReminders(u) ==
    { Reply(StatesSet(Base, u, State("set_water_reminders")),
            "Send times list like 09:00,12:00,15:00") }

\* bot.hears('Remove Reminders')
HearsRemoveReminders(u) ==
    LET doc == users[u]
        doc2 == [doc EXCEPT !.workoutDailyAt = "undefined", !.waterReminderTimes = <<>>]
    IN  IF ~doc.exists THEN { Reply(Base, "Start with /start.") }
        ELSE { Reply(Save(Base, u, doc2), "Removed reminders.") }

\* bot.hears('Trainer')
HearsTrainer(u) ==
    { Reply(StatesSet(Base, u, State("message_trainer")),
            "Type your message for the trainer / admin (feedback or question).") }

\* bot.hears('Challenges')
HearsChallenges(u) ==
    IF content.challenges = 0 THEN { Reply(Base, "No active challenges.") }
    ELSE { Reply(Base, "No active challenges."), Reply(Base, "Active Challenges") }

\* The menu handlers of lines 235-426, by label; each ends the chain.
HearsMenu(u, t) ==
    CASE t = "Profile" -> HearsProfile(u)
      [] t = "Edit Profile" -> HearsEditProfile(u)
      [] t = "Switch Profile" -> HearsSwitchProfile(u)
      [] t = "Add Profile" -> HearsAddProfile(u)
      [] t = "Delete Profile" -> HearsDeleteProfile(u)
      [] t = "Workouts" -> { Reply(Base, "Workouts menu") }
      [] t = "Today" -> HearsToday(u)
      [] t = "My Plan" -> HearsMyPlan(u)
      [] t = "Browse Exercises" -> HearsBrowseExercises(u)
      [] t = "Nutrition" -> { Reply(Base, "Nutrition menu") }
      [] t = "Log Meal" -> HearsLogMeal(u)
      [] t = "View Meals" -> HearsViewMeals(u)
      [] t = "Macro Advice" -> HearsMacroAdvice(u)
      [] t = "Water Tracker" -> HearsWaterTracker(u)
      [] t = "Progress" -> HearsProgress(u)
      [] t = "Reminders" -> { Reply(Base, "Reminders menu") }
      [] t = "Set Daily Workout" -> HearsSetDailyWorkout(u)
      [] t = "Set Water Reminders" -> HearsSetWaterReminders(u)
      [] t = "Remove Reminders" -> HearsRemoveReminders(u)
      [] t = "Trainer" -> HearsTrainer(u)
      [] t = "Challenges" -> HearsChallenges(u)
      [] t = "Settings" -> { Reply(Base, "Settings") }
      [] t = "Help" -> { Reply(Base, "Help") }

---------------------------------------------------------------------------
(* The state router, bot.on('text') of lines 429-634.  text is the trimmed *)
(* message, state the sender's entry of the states map.                    *)

\* the admin login step leaving the session in place
StepAwaitAdminPass_KeepsSession(u, text) ==
    IF text = ADMIN_PASS
    THEN { Reply([Base EXCEPT !.adminSessions = @ \cup {u}], "Admin access granted") }
    ELSE { Reply(Base, "Wrong password") }

\* the admin login step
StepAwaitAdminPass(u, text) ==
    LET o == StatesDelete(Base, u)
    IN  IF text = ADMIN_PASS
        THEN { Reply([o EXCEPT !.adminSessions = @ \cup {u}], "Admin access granted") }
        ELSE { Reply(o, "Wrong password") }

\* the onboarding steps: age, then weight, then height
\* the age step handing over to the height step
StepEditProfileFull_SkipsWeight(u, text) ==
    LET state == states[u]
        age == Number(text)
        user == findOne(users, u)
        i == FindOrFirst(user.profiles, state.profileId)
        doc == [user EXCEPT !.profiles[i].age = age]
    IN  IF isNaN(age) THEN { Reply(Base, "Please send a number for age.") }
        ELSE IF ~user.exists \/ i = 0 THEN { Throw(Base, "TypeError") }
        ELSE { Reply(StatesSet(Save(Base, u, doc), u,
                               [State("edit_profile_height")
                                   EXCEPT !.profileId = user.profiles[i].id]),
                     "Send height in cm (number).") }

StepEditProfileFull(u, text) ==
    LET state == states[u]
        age == Number(text)
        user == findOne(users, u)
        i == FindOrFirst(user.profiles, state.profileId)
        doc == [user EXCEPT !.profiles[i].age = age]
    IN  IF isNaN(age) THEN { Reply(Base, "Please send a number for age.") }
        ELSE IF ~user.exists \/ i = 0 THEN { Throw(Base, "TypeError") }
        ELSE { Reply(StatesSet(Save(Base, u, doc), u,
                               [State("edit_profile_weight")
                                   EXCEPT !.profileId = user.profiles[i].id]),
                     "Send weight in kg (number).") }

StepEditProfileWeight(u, text) ==
    LET state == states[u]
        val == Number(text)
        user == findOne(users, u)
        i == FindOrFirst(user.profiles, state.profileId)
        doc == [user EXCEPT
                  !.profiles[i].weightKg = val,
                  !.weightHistory =
                      Append(@, [profileId |-> user.profiles[i].id, value |-> val])]
    IN  IF isNaN(val) THEN { Reply(Base, "Send numeric weight in kg.") }
        ELSE IF ~user.exists \/ i = 0 THEN { Throw(Base, "TypeError") }
        ELSE { Reply(StatesSet(Save(Base, u, doc), u,
                               [State("edit_profile_height")
                                   EXCEPT !.profileId = user.profiles[i].id]),
                     "Send height in cm (number).") }

StepEditProfileHeight(u, text) ==
    LET state == states[u]
        val == Number(text)
        user == findOne(users, u)
        i == FindOrFirst(user.profiles, state.profileId)
        doc == [user EXCEPT !.profiles[i].heightCm = val]
    IN  IF isNaN(val) THEN { Reply(Base, "Send numeric height in cm.") }
        ELSE IF ~user.exists \/ i = 0 THEN { Throw(Base, "TypeError") }
        ELSE { Reply(StatesDelete(Save(Base, u, doc), u),
                     "Profile updated. Use the menu.") }

\* the editor: first the field's name, then its new value
allowed ==
    { "name", "age", "weight", "height", "fitnesslevel", "goal", "targetdate",
      "equipment", "timeavailability" }

EditingStep(field) == "editing_profile_" \o field

\* state.step.replace('editing_profile_','')
FieldOfStep(step) == CHOOSE f \in allowed : EditingStep(f) = step

StepEditingProfileField(u, text) ==
    LET state == states[u]
        field == toLowerCase(text)
    IN  IF field \notin allowed THEN { Reply(Base, "Field not recognized.") }
        ELSE { Reply(StatesSet(Base, u, [state EXCEPT !.step = EditingStep(field)]),
                     "Send new value for the field.") }

\* prof with the field named by the step set from the text
SetField(prof, field, text) ==
    CASE field = "age" -> [prof EXCEPT !.age = Number(text)]
      [] field = "weight" -> [prof EXCEPT !.weightKg = Number(text)]
      [] field = "height" -> [prof EXCEPT !.heightCm = Number(text)]
      [] field = "timeavailability" -> [prof EXCEPT !.timeAvailabilityMins = Number(text)]
      [] field = "targetdate" -> [prof EXCEPT !.goalTargetDate = text]
      [] field = "equipment" -> [prof EXCEPT !.equipment = SplitComma(text)]
      [] field = "fitnesslevel" -> [prof EXCEPT !.fitnessLevel = toLowerCase(text)]
      [] field = "name" -> [prof EXCEPT !.name = text]
      [] field = "goal" -> [prof EXCEPT !.goal = text]

\* the editor's value step with no weight-history push
StepEditingProfileValue_NoHistory(u, text) ==
    LET state == states[u]
        field == FieldOfStep(state.step)
        user == findOne(users, u)
        i == FindOrFirst(user.profiles, state.profileId)
        numeric == field \in { "age", "weight", "height", "timeavailability" }
        doc == [user EXCEPT !.profiles[i] = SetField(@, field, text)]
    IN  IF ~user.exists THEN { Throw(Base, "TypeError") }
        ELSE IF numeric /\ isNaN(Number(text)) THEN { Reply(Base, "Send a number.") }
        ELSE IF field = "targetdate" /\ ~IsDate(text)
        THEN { Reply(Base, "Send date as YYYY-MM-DD") }
        ELSE IF i = 0 THEN { Throw(Base, "TypeError") }
        ELSE { Reply(StatesDelete(Save(Base, u, doc), u), "Profile updated.") }

\* the editor's value step writing to the active profile
StepEditingProfileValue_ActiveProfile(u, text) ==
    LET state == states[u]
        field == FieldOfStep(state.step)
        user == findOne(users, u)
        i == FindOrFirst(user.profiles, user.activeProfileId)
        numeric == field \in { "age", "weight", "height", "timeavailability" }
        hist == IF field = "weight"
                THEN Append(user.weightHistory,
                            [profileId |-> user.profiles[i].id, value |-> Number(text)])
                ELSE user.weightHistory
        doc == [user EXCEPT !.profiles[i] = SetField(@, field, text),
                            !.weightHistory = hist]
    IN  IF ~user.exists THEN { Throw(Base, "TypeError") }
        ELSE IF numeric /\ isNaN(Number(text)) THEN { Reply(Base, "Send a number.") }
        ELSE IF field = "targetdate" /\ ~IsDate(text)
        THEN { Reply(Base, "Send date as YYYY-MM-DD") }
        ELSE IF i = 0 THEN { Throw(Base, "TypeError") }
        ELSE { Reply(StatesDelete(Save(Base, u, doc), u), "Profile updated.") }

StepEditingProfileValue(u, text) ==
    LET state == states[u]
        field == FieldOfStep(state.step)
        user == findOne(users, u)
        i == FindOrFirst(user.profiles, state.profileId)
        numeric == field \in { "age", "weight", "height", "timeavailability" }
        hist == IF field = "weight"
                THEN Append(user.weightHistory,
                            [profileId |-> user.profiles[i].id, value |-> Number(text)])
                ELSE user.weightHistory
        doc == [user EXCEPT !.profiles[i] = SetField(@, field, text),
                            !.weightHistory = hist]
    IN  IF ~user.exists THEN { Throw(Base, "TypeError") }
        ELSE IF numeric /\ isNaN(Number(text)) THEN { Reply(Base, "Send a number.") }
        ELSE IF field = "targetdate" /\ ~IsDate(text)
        THEN { Reply(Base, "Send date as YYYY-MM-DD") }
        ELSE IF i = 0 THEN { Throw(Base, "TypeError") }
        ELSE { Reply(StatesDelete(Save(Base, u, doc), u), "Profile updated.") }

StepSwitchProfile(u, text) ==
    LET state == states[u]
        idx == Number(text)
        arr == state.profiles
        user == findOne(users, u)
        doc == [user EXCEPT !.activeProfileId = arr[idx].id]
    IN  IF isNaN(idx) THEN { Reply(Base, "Send profile number.") }
        ELSE IF idx < 1 \/ idx > Len(arr) THEN { Reply(Base, "Invalid number.") }
        ELSE IF ~user.exists THEN { Throw(Base, "TypeError") }
        ELSE { Reply(StatesDelete(Save(Base, u, doc), u), "Switched to profile") }

\* delete_profile that leaves activeProfileId as it was
StepDeleteProfile_NoRepoint(u, text) ==
    LET idx == Number(text)
        user == findOne(users, u)
        doc == [user EXCEPT !.profiles = RemoveAt(user.profiles, idx)]
    IN  IF isNaN(idx) \/ idx < 1 THEN { Reply(Base, "Invalid number.") }
        ELSE IF ~user.exists THEN { Throw(Base, "TypeError") }
        ELSE IF idx > Len(user.profiles) THEN { Reply(Base, "Invalid number.") }
        ELSE IF Len(user.profiles) = 1 THEN { Reply(Base, "Cannot delete last profile.") }
        ELSE { Reply(StatesDelete(Save(Base, u, doc), u), "Profile deleted.") }

StepDeleteProfile(u, text) ==
    LET idx == Number(text)
        user == findOne(users, u)
        removed == user.profiles[idx]
        rest == RemoveAt(user.profiles, idx)
        doc == [user EXCEPT
                  !.profiles = rest,
                  !.activeProfileId = IF @ = removed.id THEN rest[1].id ELSE @]
    IN  IF isNaN(idx) \/ idx < 1 THEN { Reply(Base, "Invalid number.") }
        ELSE IF ~user.exists THEN { Throw(Base, "TypeError") }
        ELSE IF idx > Len(user.profiles) THEN { Reply(Base, "Invalid number.") }
        ELSE IF Len(user.profiles) = 1 THEN { Reply(Base, "Cannot delete last profile.") }
        ELSE { Reply(StatesDelete(Save(Base, u, doc), u), "Profile deleted.") }

StepBrowseExercises(u, text) ==
    LET idx == Number(text)
        list == states[u].list
    IN  IF isNaN(idx) \/ idx < 1 \/ idx > list
        THEN { Reply(Base, "Send exercise number to view details.") }
        ELSE { Reply(StatesDelete(Base, u), "Exercise details") }

StepLogMeal(u, text) ==
    LET parts == SplitSpace(text)
        calories == Number(parts[1])
        desc == IF JoinRest(text) = "" THEN "meal" ELSE JoinRest(text)
        user == findOne(users, u)
        doc == [user EXCEPT !.meals =
                   Append(@, [profileId |-> user.activeProfileId,
                              calories |-> calories, desc |-> desc])]
    IN  IF isNaN(calories) THEN { Reply(Base, "Start with calories") }
        ELSE IF ~user.exists THEN { Throw(Base, "TypeError") }
        ELSE { Reply(StatesDelete(Save(Base, u, doc), u), "Meal logged.") }

\* User.findOne({ telegramId }) || User.create({ telegramId })
findOrCreate(u) == IF users[u].exists THEN users[u] ELSE NewUser

StepSetDailyReminder(u, text) ==
    LET doc == [findOrCreate(u) EXCEPT !.workoutDailyAt = text]
    IN  IF ~IsTime(text) THEN { Reply(Base, "Time format HH:mm") }
        ELSE { Reply(StatesDelete(Save(Base, u, doc), u), "Daily reminder set") }

StepSetWaterReminders(u, text) ==
    LET times == SelectSeq(SplitComma(text), IsTime)
        off == IF users[u].exists
               THEN Save(Base, u, [users[u] EXCEPT !.waterReminderTimes = <<>>])
               ELSE Base
        doc == [findOrCreate(u) EXCEPT !.waterReminderTimes = times]
    IN  IF toLowerCase(text) = "off"
        THEN { Reply(StatesDelete(off, u), "Water reminders disabled.") }
        ELSE IF Len(times) = 0
        THEN { Reply(Base, "Send times separated by comma in HH:mm format.") }
        ELSE { Reply(StatesDelete(Save(Base, u, doc), u), "Water reminders set.") }

\* The elements of a set of ids, in increasing order.
RECURSIVE SetToSeq(_)
SetToSeq(S) ==
    IF S = {} THEN <<>>
    ELSE LET m == CHOOSE x \in S : \A y \in S : x <= y
         IN  <<m>> \o SetToSeq(S \ {m})

\* a loop that sends to the first recipient only
SendEach_FirstOnly(os, tos, kind) ==
    IF tos = <<>> THEN os
    ELSE UNION { { [o EXCEPT !.sends = Append(@, [to |-> Head(tos), kind |-> kind,
                                                   ok |-> TRUE]),
                             !.sent = @ + 1],
                   [o EXCEPT !.sends = Append(@, [to |-> Head(tos), kind |-> kind,
                                                   ok |-> FALSE]),
                             !.failed = @ + 1] } : o \in os }

\* a loop that a failed send ends
SendEach_StopsAtFailure(os, tos, kind) ==
    UNION { IF Threw(o.reply) THEN { o }
            ELSE { [o EXCEPT
                      !.sends = @ \o [i \in 1..Min(k + 1, Len(tos)) |->
                                        [to |-> tos[i], kind |-> kind, ok |-> i <= k]],
                      !.sent = @ + k,
                      !.failed = @ + (IF k < Len(tos) THEN 1 ELSE 0)]
                   : k \in 0..Len(tos) } : o \in os }

\* for (const to of tos) { try { await sendMessage(to, ...); sent++ } catch { failed++ } }
RECURSIVE SendEach(_, _, _)
SendEach(os, tos, kind) ==
    IF tos = <<>> THEN os
    ELSE SendEach(
            UNION { IF Threw(o.reply) THEN { o }
                    ELSE { [o EXCEPT !.sends = Append(@, [to |-> Head(tos),
                                                          kind |-> kind, ok |-> TRUE]),
                                     !.sent = @ + 1],
                           [o EXCEPT !.sends = Append(@, [to |-> Head(tos),
                                                          kind |-> kind, ok |-> FALSE]),
                                     !.failed = @ + 1] } : o \in os },
            Tail(tos), kind)

\* MessageRelay.create({ fromId, profileId, text, type })
RelayCreate(o, fromId, profileId, text, type) ==
    IF Threw(o.reply) THEN o
    ELSE IF dbDown THEN Throw(o, "MongoError")
    ELSE [o EXCEPT !.relays = Append(@, [fromId |-> fromId, profileId |-> profileId,
                                         text |-> text, type |-> type,
                                         read |-> FALSE])]

\* message_trainer keeping the session when a notification fails
StepMessageTrainer_KeepsOnFailure(u, text) ==
    LET user == findOne(users, u)
        o == RelayCreate(Base, u, user.activeProfileId, text, "message")
    IN  IF ~user.exists THEN { Throw(Base, "TypeError") }
        ELSE { Reply(IF s.failed = 0 THEN StatesDelete(s, u) ELSE s,
                     "Message sent to trainer/admin.")
                 : s \in SendEach({o}, SetToSeq(adminSessions), "Message from user") }

StepMessageTrainer(u, text) ==
    LET user == findOne(users, u)
        o == RelayCreate(Base, u, user.activeProfileId, text, "message")
    IN  IF ~user.exists THEN { Throw(Base, "TypeError") }
        ELSE { Reply(StatesDelete(s, u), "Message sent to trainer/admin.")
                 : s \in SendEach({o}, SetToSeq(adminSessions), "Message from user") }

\* User.find({}, 'telegramId')
AllUsers == SetToSeq({ id \in Users : users[id].exists })

\* the router's admin_broadcast branch with the fallback's branch run after it
StepAdminBroadcast_BothBranches(u, text) ==
    { Reply(StatesDelete(s, u),
            "Broadcast complete. Sent " \o ToString(s.sent)
                \o ", failed " \o ToString(s.failed) \o ".")
        : s \in SendEach(SendEach({Base}, AllUsers, "Message from Admin"),
                         AllUsers, "Admin Broadcast") }

\* the router's own admin_broadcast branch
StepAdminBroadcast(u, text) ==
    { Reply(StatesDelete(s, u),
            "Broadcast complete. Sent " \o ToString(s.sent)
                \o ", failed " \o ToString(s.failed) \o ".")
        : s \in SendEach({Base}, AllUsers, "Message from Admin") }

RouterSteps ==
    { "await_admin_pass", "edit_profile_full", "edit_profile_weight",
      "edit_profile_height", "editing_profile_field", "switch_profile",
      "delete_profile", "browse_exercises", "log_meal", "set_daily_reminder",
      "set_water_reminders", "message_trainer" }
        \cup { EditingStep(f) : f \in allowed }

\* Does the router answer the update, rather than pass it to next()?
RouterHandles(u) ==
    \/ states[u].step \in RouterSteps
    \/ u \in adminSessions /\ states[u].step = "admin_broadcast"

StateRouter(u, t) ==
    LET text == Trim(t)
        step == states[u].step
    IN  CASE step = "await_admin_pass" -> StepAwaitAdminPass(u, text)
          [] step = "edit_profile_full" -> StepEditProfileFull(u, text)
          [] step = "edit_profile_weight" -> StepEditProfileWeight(u, text)
          [] step = "edit_profile_height" -> StepEditProfileHeight(u, text)
          [] step = "editing_profile_field" -> StepEditingProfileField(u, text)
          [] step \in { EditingStep(f) : f \in allowed } ->
                StepEditingProfileValue(u, text)
          [] step = "switch_profile" -> StepSwitchProfile(u, text)
          [] step = "delete_profile" -> StepDeleteProfile(u, text)
          [] step = "browse_exercises" -> StepBrowseExercises(u, text)
          [] step = "log_meal" -> StepLogMeal(u, text)
          [] step = "set_daily_reminder" -> StepSetDailyReminder(u, text)
          [] step = "set_water_reminders" -> StepSetWaterReminders(u, text)
          [] step = "message_trainer" -> StepMessageTrainer(u, text)
          [] step = "admin_broadcast" -> StepAdminBroadcast(u, text)

---------------------------------------------------------------------------
(* The handlers registered after the state router. *)

\* bot.on('text') of lines 676-691: does it answer, and what it does
AdminReplyHandles(u) == states[u].step = "admin_reply" /\ u \in adminSessions

AdminReply(u, t) ==
    LET sending == SendEach({Base}, <<states[u].toId>>, "Trainer reply")
    IN  { IF s.failed = 0
          THEN Reply(StatesDelete(s, u), "Reply forwarded.")
          ELSE Reply(StatesDelete(s, u), "Failed to forward")
            : s \in sending }

\* /admin with no test of the configured password
CommandAdmin_NoCheck(u) ==
    { Reply(StatesSet(Base, u, State("await_admin_pass")),
            "Enter admin password (it will not be stored).") }

\* bot.command('admin')
CommandAdmin(u) ==
    IF ADMIN_PASS = Null THEN { Reply(Base, "No admin password set on server.") }
    ELSE { Reply(StatesSet(Base, u, State("await_admin_pass")),
                 "Enter admin password (it will not be stored).") }

\* bot.hears('Logout Admin')
HearsLogoutAdmin(u) ==
    IF u \in adminSessions
    THEN { Reply([Base EXCEPT !.adminSessions = @ \ {u}], "Logged out of admin.") }
    ELSE { Reply(Base, "You are not admin.") }

\* The step an admin menu label opens, or "" for a label that only replies.
AdminStepOf(t) ==
    CASE t = "Promote User" -> "promote_user"
      [] t = "Demote User" -> "demote_user"
      [] t = "Remove User" -> "remove_user"
      [] t = "Create Exercise" -> "create_exercise"
      [] t = "Create Workout" -> "create_workout"
      [] t = "Create Challenge" -> "create_challenge"
      [] t = "Broadcast" -> "admin_broadcast"
      [] OTHER -> ""

\* bot.hears('Feedback')
HearsFeedback(u) ==
    LET items == SelectSeq(relays, LAMBDA r : r.type \in { "feedback", "bug" })
    IN  IF Len(items) = 0 THEN { Reply(Base, "No feedback/bugs reported.") }
        ELSE { [Base EXCEPT !.reply = [i \in 1..Len(items) |-> "Feedback item"]] }

\* The admin menu handlers of lines 700-796, by label.
HearsAdmin(u, t) ==
    IF t = "Logout Admin" THEN HearsLogoutAdmin(u)
    ELSE IF u \notin adminSessions THEN { Reply(Base, "Admin only.") }
    ELSE IF AdminStepOf(t) # ""
    THEN { Reply(StatesSet(Base, u, State(AdminStepOf(t))), "Send the input.") }
    ELSE IF t = "Feedback" THEN HearsFeedback(u)
    ELSE { Reply(Base, "Admin menu") }

\* Mongoose casts a query's telegramId to Number and rejects NaN.
\* promote_user / demote_user
StepSetRole(u, t, role) ==
    LET id == Number(t)
        target == findOne(users, id)
    IN  IF isNaN(id) THEN { Throw(Base, "CastError") }
        ELSE IF ~target.exists
        THEN { Reply(StatesDelete(Base, u), "User not found") }
        ELSE { Reply(StatesDelete(Save(Base, id, [target EXCEPT !.role = role]), u),
                     IF role = "admin" THEN "Promoted to admin." ELSE "Demoted.") }

\* remove_user that also ends the removed chat's elevation
StepRemoveUser_EndsElevation(u, t) ==
    LET id == Number(t)
        o == IF id \in Users THEN Save(Base, id, NoUser) ELSE Base
    IN  IF isNaN(id) THEN { Throw(Base, "CastError") }
        ELSE { Reply(StatesDelete([o EXCEPT !.adminSessions = @ \ {id}], u),
                     "Delete result") }

\* remove_user: User.deleteOne({ telegramId: id })
StepRemoveUser(u, t) ==
    LET id == Number(t)
        o == IF id \in Users THEN Save(Base, id, NoUser) ELSE Base
    IN  IF isNaN(id) THEN { Throw(Base, "CastError") }
        ELSE { Reply(StatesDelete(o, u), "Delete result") }

\* create_exercise: JSON, or the pipe format with at least two parts
StepCreateExercise(u, t) ==
    LET parsed == JSONparse(t)
    IN  IF parsed = "SyntaxError" /\ PipeParts(t) < 2
        THEN { Reply(Base, "Invalid format.") }
        ELSE IF parsed = "number" THEN { Throw(Base, "ObjectParameterError") }
        ELSE { Reply(StatesDelete(ContentCreate(Base, "exercises"), u),
                     "Exercise created.") }

\* create_workout
StepCreateWorkout(u, t) ==
    LET parsed == JSONparse(t)
    IN  IF parsed = "SyntaxError" THEN { Reply(Base, "Send valid JSON for workout") }
        ELSE IF parsed = "number" THEN { Throw(Base, "ObjectParameterError") }
        ELSE { Reply(StatesDelete(ContentCreate(Base, "workouts"), u),
                     "Workout created.") }

\* create_challenge: new Date(obj.startDate) of a missing date is an Invalid Date,
\* which Challenge.create rejects
StepCreateChallenge(u, t) ==
    LET parsed == JSONparse(t)
    IN  IF parsed = "SyntaxError" THEN { Reply(Base, "Send valid JSON for challenge") }
        ELSE IF parsed = "number" THEN { Throw(Base, "ObjectParameterError") }
        ELSE IF parsed # "dated object" THEN { Throw(Base, "ValidationError") }
        ELSE { Reply(StatesDelete(ContentCreate(Base, "challenges"), u),
                     "Challenge created.") }

\* the fallback router's admin_broadcast branch
StepAdminBroadcastFallback(u, t) ==
    { Reply(StatesDelete(s, u),
            "Broadcast sent to " \o ToString(s.sent) \o " users, failed "
                \o ToString(s.failed) \o ".")
        : s \in SendEach({Base}, AllUsers, "Admin Broadcast") }

AdminFallbackSteps ==
    { "promote_user", "demote_user", "remove_user", "create_exercise",
      "create_workout", "create_challenge", "admin_broadcast" }

\* the branches chosen by the step alone
AdminFallbackHandles_StepOnly(u) == states[u].step \in AdminFallbackSteps

\* bot.on('text') of lines 834-914: every branch asks adminSessions.has(sender)
AdminFallbackHandles(u) ==
    states[u].step \in AdminFallbackSteps /\ u \in adminSessions

AdminFallback(u, raw) ==
    LET t == Trim(raw)
        step == states[u].step
    IN  CASE step = "promote_user" -> StepSetRole(u, t, "admin")
          [] step = "demote_user" -> StepSetRole(u, t, "user")
          [] step = "remove_user" -> StepRemoveUser(u, t)
          [] step = "create_exercise" -> StepCreateExercise(u, t)
          [] step = "create_workout" -> StepCreateWorkout(u, t)
          [] step = "create_challenge" -> StepCreateChallenge(u, t)
          [] step = "admin_broadcast" -> StepAdminBroadcastFallback(u, t)

\* bot.hears('Request Data Deletion')
HearsRequestDataDeletion(u) ==
    LET doc == [users[u] EXCEPT !.consent = FALSE]
    IN  IF ~users[u].exists THEN { Reply(Base, "No account found.") }
        ELSE { Reply(RelayCreate(Save(Base, u, doc), u, Undefined,
                                 "User requested data deletion", "privacy"),
                     "Your deletion request has been submitted to admins.") }

\* bot.command('report')
CommandReport(u) ==
    { Reply(StatesSet(Base, u, State("report_bug")),
            "Please describe the bug or feedback.") }

\* bot.on('text') of lines 932-944
ReportBug(u, t) ==
    LET o == StatesDelete(RelayCreate(Base, u, Undefined, t, "bug"), u)
    IN  { Reply(s, "Thanks - bug report submitted.")
            : s \in SendEach({o}, SetToSeq(adminSessions), "Bug reported") }

\* a fallback that also drops the sender's session
Fallback_ClearsSession(u) == { Reply(StatesDelete(Base, u), "I did not understand that.") }

\* bot.on('message')
Fallback(u) == { Reply(Base, "I did not understand that.") }

---------------------------------------------------------------------------
(* A text update: the chain, in registration order. *)

Dispatch(u, t) ==
    IF t = "/start" THEN BotStart(u)
    ELSE IF t \in MenuLabels THEN HearsMenu(u, t)
    ELSE IF RouterHandles(u) THEN StateRouter(u, t)
    ELSE IF AdminReplyHandles(u) THEN AdminReply(u, t)
    ELSE IF t = "/admin" THEN CommandAdmin(u)
    ELSE IF t \in AdminLabels THEN HearsAdmin(u, t)
    ELSE IF AdminFallbackHandles(u) THEN AdminFallback(u, t)
    ELSE IF t = "Request Data Deletion" THEN HearsRequestDataDeletion(u)
    ELSE IF t = "/report" THEN CommandReport(u)
    ELSE IF states[u].step = "report_bug" THEN ReportBug(u, t)
    ELSE Fallback(u)

\* The stores after an update from chat `from` whose handler ended with outcome o.
Commit(from, o) ==
    /\ sender' = from
    /\ states' = o.states
    /\ adminSessions' = o.adminSessions
    /\ users' = o.users
    /\ relays' = o.relays
    /\ content' = o.content
    /\ nextId' = o.nextId
    /\ reply' = o.reply
    /\ sends' = o.sends
    /\ turns' = turns + 1
    /\ dbDown' = dbDown
    /\ inflight' = inflight
    /\ ADMIN_PASS' = ADMIN_PASS

TextTurn(u, t) == \E o \in Dispatch(u, t) : Commit(u, o)

---------------------------------------------------------------------------
(* Button presses: bot.on('callback_query'). *)

Callbacks ==
    { [kind |-> "done", arg |-> 1], [kind |-> "skip", arg |-> 1],
      [kind |-> "replyto", arg |-> 1], [kind |-> "replyto", arg |-> 2],
      [kind |-> "markread", arg |-> 1], [kind |-> "noop", arg |-> 0] }

\* the badge earned at a streak of this many days
StreakBadgeAt == 7

CallbackDone(u, d) ==
    LET user == findOne(users, u)
        streak == user.streak + 1
        doc == [user EXCEPT
                  !.workoutsCompleted =
                      Append(@, [profileId |-> user.activeProfileId, workoutId |-> d.arg]),
                  !.streak = streak,
                  !.badges = IF streak = StreakBadgeAt
                                /\ \A i \in 1..Len(@) : @[i] # "7-day-streak"
                             THEN Append(@, "7-day-streak") ELSE @]
    IN  IF ~user.exists THEN { Throw(Base, "TypeError") }
        ELSE { Reply(Save(Base, u, doc), "Workout logged. Good job!") }

CallbackSkip(u) ==
    LET user == findOne(users, u)
    IN  IF ~user.exists THEN { Throw(Base, "TypeError") }
        ELSE { Reply(Save(Base, u, [user EXCEPT !.streak = 0]), "Skipped. Streak reset.") }

CallbackReplyTo(u, d) ==
    IF u \notin adminSessions THEN { Reply(Base, "Unauthorized") }
    ELSE { Reply(StatesSet(Base, u, [State("admin_reply") EXCEPT !.toId = d.arg]),
                 "Type reply to forward to user.") }

\* MessageRelay.findByIdAndUpdate(rId, { read: true })
CallbackMarkRead(u, d) ==
    IF d.arg \in 1..Len(relays)
    THEN { IF dbDown THEN Throw(Base, "MongoError")
           ELSE Reply([Base EXCEPT !.relays[d.arg].read = TRUE], "Marked read") }
    ELSE { Reply(Base, "Marked read") }

CallbackDispatch(u, d) ==
    CASE d.kind = "done" -> CallbackDone(u, d)
      [] d.kind = "skip" -> CallbackSkip(u)
      [] d.kind = "replyto" -> CallbackReplyTo(u, d)
      [] d.kind = "markread" -> CallbackMarkRead(u, d)
      [] OTHER -> { Base }

CallbackQuery(u, d) == \E o \in CallbackDispatch(u, d) : Commit(u, o)

---------------------------------------------------------------------------
(* The scheduled jobs. *)

\* moment().format('HH:mm') at the minutes the model's clock can show
Clock == { "18:30", "09:30", "09:00" }

\* cron.schedule('* * * * *'): the workout reminders, then the water reminders
MinuteTick(hhmm) ==
    LET due == SetToSeq({ id \in Users : /\ users[id].exists
                                         /\ users[id].workoutDailyAt = hhmm })
        water == SetToSeq({ id \in Users :
                    /\ users[id].exists
                    /\ \E i \in 1..Len(users[id].waterReminderTimes) :
                            users[id].waterReminderTimes[i] = hhmm })
    IN  \E o \in SendEach(SendEach({Base}, due, "Time for your workout!"),
                           water, "Hydration reminder") : Commit(0, o)

\* cron.schedule('0 8 * * 0'): the weekly summary
WeeklyTick == \E o \in SendEach({Base}, AllUsers, "Weekly Summary") : Commit(0, o)

---------------------------------------------------------------------------

Init ==
    /\ states = [u \in Users |-> NoState]
    /\ adminSessions = {}
    /\ users = [u \in Users |-> NoUser]
    /\ relays = <<>>
    /\ content = SeededContent
    /\ nextId = 1
    /\ reply = <<>>
    /\ sends = <<>>
    /\ sender = 0
    /\ turns = 0
    /\ dbDown = FALSE
    /\ inflight = <<>>
    /\ ADMIN_PASS = Secret

\* Every update the bot can receive, every job it can run.
Next ==
    \/ \E u \in Users, t \in Texts : turns < MaxTurns /\ TextTurn(u, t)
    \/ \E u \in Users, d \in Callbacks : turns < MaxTurns /\ CallbackQuery(u, d)
    \/ \E hhmm \in Clock : turns < MaxTurns /\ MinuteTick(hhmm)
    \/ turns < MaxTurns /\ WeeklyTick

Spec == Init /\ [][Next]_vars

\* The profile flows, followed further: registration, onboarding, the editor's
\* weight field, adding and deleting profiles, and an admin removing a user.
ProfileTexts ==
    { "/start", "1", "2", "Add Profile", "Edit Profile", "weight",
      "Delete Profile", "/admin", "s3cret", "Remove User" }

NextProfile ==
    \E u \in Users, t \in ProfileTexts : turns < MaxProfileTurns /\ TextTurn(u, t)

SpecProfile == Init /\ [][NextProfile]_vars

\* The admin flows, followed further: login, logout, the privileged steps and
\* the reply button, among turns of ordinary flows.
AdminTexts ==
    { "/start", "/admin", "s3cret", " s3cret ", "abc", "1", "2", "Logout Admin",
      "Promote User", "Demote User", "Remove User", "Create Exercise", "Broadcast",
      "x | core", "Log Meal" }

AdminCallbacks == { d \in Callbacks : d.kind = "replyto" }

NextAdmin ==
    \/ \E u \in Users, t \in AdminTexts : turns < MaxAdminTurns /\ TextTurn(u, t)
    \/ \E u \in Users, d \in AdminCallbacks :
            turns < MaxAdminTurns /\ CallbackQuery(u, d)

SpecAdmin == Init /\ [][NextAdmin]_vars

\* The same updates on a server started with no ADMIN_PASS in its environment.
InitNoSecret ==
    /\ states = [u \in Users |-> NoState]
    /\ adminSessions = {}
    /\ users = [u \in Users |-> NoUser]
    /\ relays = <<>>
    /\ content = SeededContent
    /\ nextId = 1
    /\ reply = <<>>
    /\ sends = <<>>
    /\ sender = 0
    /\ turns = 0
    /\ dbDown = FALSE
    /\ inflight = <<>>
    /\ ADMIN_PASS = Null

SpecNoSecret == InitNoSecret /\ [][NextAdmin]_vars

\* The broadcast flow, followed further: two chats register, one of them logs
\* in as admin, opens the broadcast step and sends the message.
BroadcastTexts ==
    { "/start", "1", "Water Tracker", "Log Meal", "/admin", "s3cret", "Broadcast",
      "abc" }

NextBroadcast ==
    \E u \in Users, t \in BroadcastTexts :
        turns < MaxBroadcastTurns /\ TextTurn(u, t)

SpecBroadcast == Init /\ [][NextBroadcast]_vars

\* The relay to the trainer, followed further: chats register and log in as
\* admin, and a chat opens the trainer flow and sends its message.
RelayTexts == { "/start", "Trainer", "abc", "/admin", "s3cret" }

NextRelay ==
    \E u \in Users, t \in RelayTexts :
        turns < MaxRelayTurns /\ TextTurn(u, t)

SpecRelay == Init /\ [][NextRelay]_vars

\* The editor, followed further: a chat registers, opens the editor, names a
\* field and sends values, valid and invalid, with a profile added in between.
EditorTexts ==
    { "/start", "Edit Profile", "Add Profile", "weight", "fitnessLevel",
      "targetDate", "abc", "1", "2030-01-31" }

NextEditor ==
    \E u \in Users, t \in EditorTexts :
        turns < MaxEditorTurns /\ TextTurn(u, t)

SpecEditor == Init /\ [][NextEditor]_vars

---------------------------------------------------------------------------
(* The onboarding branches of the state router, await by await.  Nothing    *)
(* orders two updates of one chat: a second handler may start, and run to   *)
(* any of its awaits, while a first is suspended at one of its own.         *)

\* Number(text.trim()) is a number
Numeric(t) == ~isNaN(Number(Trim(t)))

OnboardingSteps == { "edit_profile_full", "edit_profile_weight", "edit_profile_height" }

\* What an onboarding step sets, and the step it hands over to.
FieldOfOnboarding(step) ==
    CASE step = "edit_profile_full" -> "age"
      [] step = "edit_profile_weight" -> "weight"
      [] step = "edit_profile_height" -> "height"

NextOnboarding(step) ==
    CASE step = "edit_profile_full" -> "edit_profile_weight"
      [] step = "edit_profile_weight" -> "edit_profile_height"
      [] step = "edit_profile_height" -> ""

\* the stores a suspended step leaves alone
RaceFrame ==
    UNCHANGED <<adminSessions, relays, content, nextId, sends, dbDown, ADMIN_PASS>>

\* an update that waits for the chat's handler in flight to end before it starts
RaceEnter_Queued(u, t) ==
    /\ states[u].step \in OnboardingSteps
    /\ Numeric(t)
    /\ \A k \in 1..Len(inflight) : inflight[k].from # u
    /\ inflight' = Append(inflight, [from |-> u, step |-> states[u].step,
                                     profileId |-> states[u].profileId,
                                     text |-> Trim(t), pc |-> "find",
                                     doc |-> NoUser])
    /\ sender' = u /\ turns' = turns + 1 /\ reply' = <<>>
    /\ UNCHANGED <<states, users>> /\ RaceFrame

\* The handler starts: it reads the session, takes the branch of its step,
\* checks the number, and suspends at await User.findOne.
RaceEnter(u, t) ==
    /\ states[u].step \in OnboardingSteps
    /\ Numeric(t)
    /\ inflight' = Append(inflight, [from |-> u, step |-> states[u].step,
                                     profileId |-> states[u].profileId,
                                     text |-> Trim(t), pc |-> "find",
                                     doc |-> NoUser])
    /\ sender' = u /\ turns' = turns + 1 /\ reply' = <<>>
    /\ UNCHANGED <<states, users>> /\ RaceFrame

\* findOne resolves: the handler holds its own copy of the document, sets the
\* field on it and suspends at await user.save(); with no document it throws.
RaceFind(k) ==
    LET turn == inflight[k]
        doc == findOne(users, turn.from)
    IN  /\ turn.pc = "find"
        /\ IF doc.exists /\ FindOrFirst(doc.profiles, turn.profileId) # 0
           THEN /\ inflight' = [inflight EXCEPT ![k].pc = "save", ![k].doc = doc]
                /\ reply' = reply
           ELSE /\ inflight' = RemoveAt(inflight, k)
                /\ reply' = <<"TypeError">>
        /\ sender' = turn.from
        /\ UNCHANGED <<states, users, turns>> /\ RaceFrame

\* save resolves.  Mongoose sends the modified paths only: $set of the field
\* at the profile's position, and the weight entry either as a $push or, when
\* the assignment to user.stats marks the whole path modified, as a $set of the
\* history the handler read plus the entry.  When the stored document is no
\* longer the one the handler read, the write may instead be rejected with a
\* VersionError, by the version rule of the mongoose in use.
RaceSave(k) ==
    LET turn == inflight[k]
        u == turn.from
        cur == users[u]
        i == FindOrFirst(turn.doc.profiles, turn.profileId)
        field == FieldOfOnboarding(turn.step)
        entry == [profileId |-> turn.doc.profiles[i].id, value |-> Number(turn.text)]
        pushed == [cur EXCEPT
                     !.profiles[i] = SetField(@, field, turn.text),
                     !.weightHistory = IF field = "weight" THEN Append(@, entry) ELSE @]
        replaced == [pushed EXCEPT
                       !.weightHistory = Append(turn.doc.weightHistory, entry)]
    IN  /\ turn.pc = "save"
        /\ \/ /\ cur.exists /\ i <= Len(cur.profiles)
              /\ users' \in { [users EXCEPT ![u] = pushed],
                              [users EXCEPT ![u] = IF field = "weight"
                                                   THEN replaced ELSE pushed] }
              /\ inflight' = [inflight EXCEPT ![k].pc = "advance"]
              /\ reply' = reply
           \/ /\ cur # turn.doc
              /\ users' = users
              /\ inflight' = RemoveAt(inflight, k)
              /\ reply' = <<"VersionError">>
        /\ sender' = u
        /\ UNCHANGED <<states, turns>> /\ RaceFrame

\* After the save the handler writes the session from the step it read when it
\* started, replies and ends.
RaceAdvance(k) ==
    LET turn == inflight[k]
        u == turn.from
        i == FindOrFirst(turn.doc.profiles, turn.profileId)
        next == NextOnboarding(turn.step)
    IN  /\ turn.pc = "advance"
        /\ states' = [states EXCEPT ![u] =
                         IF next = "" THEN NoState
                         ELSE [State(next) EXCEPT !.profileId = turn.doc.profiles[i].id]]
        /\ reply' = << IF next = "edit_profile_weight" THEN "Send weight in kg (number)."
                       ELSE IF next = "edit_profile_height"
                       THEN "Send height in cm (number)."
                       ELSE "Profile updated. Use the menu." >>
        /\ inflight' = RemoveAt(inflight, k)
        /\ sender' = u
        /\ UNCHANGED <<users, turns>> /\ RaceFrame

NextRace ==
    \/ \E u \in Users : turns < MaxRaceTurns /\ TextTurn(u, "/start")
    \/ \E u \in Users, t \in { "1", "2" } :
          turns < MaxRaceTurns /\ Len(inflight) < MaxInFlight /\ RaceEnter(u, t)
    \/ \E k \in 1..Len(inflight) : RaceFind(k)
    \/ \E k \in 1..Len(inflight) : RaceSave(k)
    \/ \E k \in 1..Len(inflight) : RaceAdvance(k)

SpecRace == Init /\ [][NextRace]_vars

\* The store goes down or comes back between two updates.
Outage ==
    /\ dbDown' = ~dbDown
    /\ UNCHANGED <<states, adminSessions, users, relays, content, nextId, reply,
                   sends, sender, turns, inflight, ADMIN_PASS>>

\* The flows that write to the store, with the store failing at any time.
FailureTexts ==
    { "/start", "1", "Edit Profile", "weight", "Log Meal", "600 oats", "Trainer",
      "abc", "Set Daily Workout", "18:30", "/report", "/admin", "s3cret",
      "Promote User", "Remove User", "Create Exercise", "x | core" }

NextFailure ==
    \/ \E u \in Users, t \in FailureTexts : turns < MaxFailureTurns /\ TextTurn(u, t)
    \/ Outage

SpecFailure == Init /\ [][NextFailure]_vars

---------------------------------------------------------------------------
(* Properties. *)

IsPrefix(s, t) == Len(s) <= Len(t) /\ SubSeq(t, 1, Len(s)) = s


\* The profile of doc with this id (the id must be one of doc's).
ProfileOf(doc, id) == doc.profiles[FindIndex(doc.profiles, id)]

(* C1: session isolation.  Whatever the update, the session entry of every  *)
(* chat other than its sender is after it what it was before it: an update  *)
(* writes the states map under its sender's id only.                        *)
C1_SessionIsolation ==
    [][\A a \in Users : a # sender' => states'[a] = states[a]]_vars

\* Both chats are in a flow, each in its own, and the last update opened one.
C1_Witness ==
    /\ states[1].step # "" /\ states[2].step # ""
    /\ states[1].step # states[2].step
    /\ sender \in Users /\ Len(reply) > 0 /\ ~Threw(reply)


\* What one valid turn of the onboarding chain leaves: the next step with the
\* same profile id carried, and the step's field of that profile set.
OnboardingAdvance(u, t) ==
    LET pid == states[u].profileId
        n == Number(Trim(t))
        prof == ProfileOf(users'[u], pid)
    IN  /\ users'[u].exists /\ FindIndex(users'[u].profiles, pid) # 0
        /\ states[u].step = "edit_profile_full" =>
              /\ states'[u] = [State("edit_profile_weight") EXCEPT !.profileId = pid]
              /\ prof.age = n
        /\ states[u].step = "edit_profile_weight" =>
              /\ states'[u] = [State("edit_profile_height") EXCEPT !.profileId = pid]
              /\ prof.weightKg = n /\ prof.age # Undefined
        /\ states[u].step = "edit_profile_height" =>
              /\ states'[u] = NoState
              /\ prof.heightCm = n /\ prof.age # Undefined /\ prof.weightKg # Undefined

\* /start of an unregistered chat opens the chain on the new profile.
OnboardingOpens(u) ==
    (~users[u].exists /\ TextTurn(u, "/start")) =>
        /\ users'[u].exists /\ Len(users'[u].profiles) = 1
        /\ users'[u].activeProfileId = users'[u].profiles[1].id
        /\ states'[u] = [State("edit_profile_full")
                            EXCEPT !.profileId = users'[u].profiles[1].id]

(* C2: after /start of an unregistered chat the session is at   *)
(* the age step with the new profile's id, and from there every numeric     *)
(* input advances the chain by exactly one step (age, weight, height, no    *)
(* session), setting the step's field on that profile.                      *)
C2_OnboardingChain ==
    [][\A u \in Users :
          /\ OnboardingOpens(u)
          /\ \A t \in Texts :
                (states[u].step \in OnboardingSteps /\ Numeric(t) /\ TextTurn(u, t))
                    => OnboardingAdvance(u, t)]_vars

NumericSteps ==
    OnboardingSteps \cup { EditingStep(f) : f \in { "age", "weight", "height",
                                                    "timeavailability" } }

(* C3: numeric validation.  In a step that expects a number, a text that is *)
(* not a number leaves the sender's session (step and data) and every       *)
(* persisted User record, weight histories included, as they were.          *)
C3_NonNumericRejected ==
    [][\A u \in Users, t \in Texts :
          (states[u].step \in NumericSteps /\ ~Numeric(t) /\ TextTurn(u, t))
              => (states'[u] = states[u] /\ users' = users)]_vars

WeightSteps == { "edit_profile_weight", EditingStep("weight") }

\* A turn that sets a weight: a number, sent in a weight step by a chat
\* whose record and profile are there.
WeightTurn(u, t) ==
    /\ states[u].step \in WeightSteps
    /\ Numeric(t)
    /\ users[u].exists
    /\ TextTurn(u, t)

\* Such a turn writes the profile's weight and appends one entry for it.
DualWrite ==
    \A u \in { a \in Users : states[a].step \in WeightSteps }, t \in Texts :
        WeightTurn(u, t) =>
            LET i == FindOrFirst(users[u].profiles, states[u].profileId)
                pid == users[u].profiles[i].id
            IN  /\ users'[u].profiles[i].id = pid
                /\ users'[u].profiles[i].weightKg = Number(Trim(t))
                /\ users'[u].weightHistory =
                      Append(users[u].weightHistory,
                             [profileId |-> pid, value |-> Number(Trim(t))])

\* No other update makes a history longer or changes a profile's weight.
OnlyWeightTurnsWrite ==
    \A a \in Users :
        (\/ Len(users'[a].weightHistory) > Len(users[a].weightHistory)
         \/ \E i \in 1..Len(users[a].profiles) :
                /\ i <= Len(users'[a].profiles)
                /\ users'[a].profiles[i].id = users[a].profiles[i].id
                /\ users'[a].profiles[i].weightKg # users[a].profiles[i].weightKg)
            => \E t \in Texts : a = sender' /\ WeightTurn(a, t)

\* Chat a's record is deleted by an elevated admin's remove_user turn.
RemovedByAdmin(a) ==
    /\ users[a].exists /\ ~users'[a].exists
    /\ sender' \in adminSessions
    /\ states[sender'].step = "remove_user"
    /\ \E t \in Texts : Number(Trim(t)) = a /\ TextTurn(sender', t)

(* C4, as claimed: a successful weight turn, on the onboarding path or the  *)
(* editor path, sets the profile's weight and appends exactly one entry for *)
(* that profile; no other update lengthens a history; and the entries a     *)
(* history holds are never changed or removed.                              *)
C4_Original ==
    [][/\ DualWrite
       /\ OnlyWeightTurnsWrite
       /\ \A a \in Users : IsPrefix(users[a].weightHistory, users'[a].weightHistory)]_vars

(* C4, amended: the same, except that the entries are removed together with *)
(* the whole User record when an elevated admin's remove_user turn deletes  *)
(* it; while the record exists they are never changed or removed.           *)
C4_WeightDualWrite ==
    [][/\ DualWrite
       /\ OnlyWeightTurnsWrite
       /\ \A a \in Users :
            \/ IsPrefix(users[a].weightHistory, users'[a].weightHistory)
            \/ RemovedByAdmin(a)]_vars

\* A weight written on each path: the chain's, then the editor's, on one profile.
C4_Witness ==
    \E u \in Users :
        /\ users[u].exists /\ Len(users[u].profiles) = 1
        /\ Len(users[u].weightHistory) = 2
        /\ users[u].weightHistory[1].value # users[u].weightHistory[2].value
        /\ users[u].weightHistory[2].profileId = users[u].profiles[1].id
        /\ users[u].profiles[1].weightKg = users[u].weightHistory[2].value
        /\ reply = <<"Profile updated.">> /\ sender = u

\* Texts that are a registered menu label or command.
Triggers == MenuLabels \cup AdminLabels \cup Commands \cup { "Request Data Deletion" }

(* C5: flows are modal.  A text turn of a chat that is in a flow (its step  *)
(* is one the state router owns) is answered by the router's handler of     *)
(* that step even when the text is a menu label or a command: the update's  *)
(* effect is one of that handler's outcomes.                                *)
C5_FlowsModal ==
    [][\A u \in Users, t \in Triggers :
          (states[u].step \in RouterSteps /\ TextTurn(u, t))
              => \E o \in StateRouter(u, t) : Commit(u, o)]_vars

\* The steps some text handler has a branch for.
HandledSteps ==
    RouterSteps \cup AdminFallbackSteps \cup { "admin_reply", "report_bug" }

(* C6: the step of every stored session is one that some flow handler has a *)
(* branch for.                                                              *)
C6_StepsRegistered ==
    \A u \in Users : states[u] # NoState => states[u].step \in HandledSteps

(* C7: elevation is granted only by a text turn at await_admin_pass whose   *)
(* trimmed text equals the secret; and every text turn at await_admin_pass  *)
(* clears the session, elevating the sender if the text matches and         *)
(* leaving the elevation set as it was if it does not.                      *)
C7_ElevationOnlyByPassword ==
    [][/\ \A a \in adminSessions' \ adminSessions :
            /\ a = sender'
            /\ states[a].step = "await_admin_pass"
            /\ \E t \in Texts : Trim(t) = ADMIN_PASS /\ TextTurn(a, t)
       /\ \A u \in Users, t \in Texts :
            (states[u].step = "await_admin_pass" /\ TextTurn(u, t)) =>
                /\ states'[u] = NoState
                /\ IF Trim(t) = ADMIN_PASS THEN u \in adminSessions'
                   ELSE adminSessions' = adminSessions]_vars

(* C8: elevation lasts until logout.  A chat leaves the elevation set only  *)
(* by its own 'Logout Admin' turn, answered by the logout handler; no other *)
(* update of any chat (a failed password attempt, its demotion, the removal *)
(* of its User record) takes it out.                                        *)
C8_ElevationUntilLogout ==
    [][\A a \in adminSessions \ adminSessions' :
          /\ a = sender'
          /\ TextTurn(a, "Logout Admin")
          /\ \E o \in HearsLogoutAdmin(a) : Commit(a, o)]_vars

\* Both chats are elevated, and one of them has just failed a password attempt.
C8_Witness ==
    /\ adminSessions = Users
    /\ reply = <<"Wrong password">>

\* bot.telegram.sendMessage calls that only privileged flows make
PrivilegedSends == { "Message from Admin", "Admin Broadcast", "Trainer reply" }

\* The update changed a role, removed a user, created content, or sent a
\* broadcast or an admin reply.
PrivilegedEffect ==
    \/ \E a \in Users : users[a].exists /\ users'[a].exists
                          /\ users'[a].role # users[a].role
    \/ \E a \in Users : users[a].exists /\ ~users'[a].exists
    \/ content' # content
    \/ \E i \in 1..Len(sends') : sends'[i].kind \in PrivilegedSends

(* C9: a privileged effect (a role change, a user's removal, content        *)
(* creation, a broadcast send, an admin reply's forward) is only ever the   *)
(* effect of an update whose sender is in the elevation set when it is      *)
(* handled.                                                                 *)
C9_PrivilegedNeedsElevation ==
    [][PrivilegedEffect => sender' \in adminSessions]_vars

\* A chat that logged out with a privileged step left in its session sent a
\* text: nothing was done, and the step is still there.
C9_Witness ==
    \E u \in Users :
        /\ sender = u /\ u \notin adminSessions
        /\ states[u].step \in AdminFallbackSteps
        /\ reply = <<"I did not understand that.">>

(* C10: every User record has at least one profile, and its                 *)
(* activeProfileId is the id of one of its own profiles.                    *)
C10_ProfileInvariant ==
    \A u \in Users :
        users[u].exists =>
            /\ Len(users[u].profiles) >= 1
            /\ FindIndex(users[u].profiles, users[u].activeProfileId) # 0

\* The ids of the profiles of a User record.
ProfileIds(doc) == { doc.profiles[i].id : i \in 1..Len(doc.profiles) }

(* C11: delete-profile flow.  A delete_profile turn of a registered chat    *)
(* with a valid index: with two or more profiles, exactly the profile at    *)
(* that index is removed, and activeProfileId is re-pointed to a profile    *)
(* that remains if it named the removed one, and is unchanged otherwise;    *)
(* with exactly one profile, the list and activeProfileId are unchanged.    *)
C11_DeleteProfile ==
    [][\A u \in { a \in Users : states[a].step = "delete_profile" /\ users[a].exists },
          t \in Texts :
          LET idx == Number(Trim(t))
              old == users[u].profiles
              new == users'[u].profiles
          IN  (idx \in 1..Len(old) /\ TextTurn(u, t)) =>
                IF Len(old) >= 2
                THEN /\ Len(new) = Len(old) - 1
                     /\ \A j \in 1..Len(new) :
                            new[j] = IF j < idx THEN old[j] ELSE old[j + 1]
                     /\ IF users[u].activeProfileId = old[idx].id
                        THEN users'[u].activeProfileId \in ProfileIds(users'[u])
                        ELSE users'[u].activeProfileId = users[u].activeProfileId
                ELSE /\ new = old
                     /\ users'[u].activeProfileId = users[u].activeProfileId]_vars

\* A chat registered, added a second profile (now the active one) and deleted
\* it: the first profile remains and is the active one again.
C11_Witness ==
    \E u \in Users :
        /\ sender = u /\ reply = <<"Profile deleted.">>
        /\ \A a \in Users \ {u} : ~users[a].exists
        /\ nextId = 3
        /\ Len(users[u].profiles) = 1
        /\ users[u].profiles[1].id = 1
        /\ users[u].activeProfileId = 1

\* The chats with a User record.
Registered == { id \in Users : users[id].exists }

\* A text the state router receives: not one a handler registered before it takes.
ReachesRouter(t) == t \notin MenuLabels \cup { "/start" }

(* C12: broadcast fan-out.  A text that reaches the admin_broadcast step of *)
(* an elevated sender is sent once to each of the N users in the store,     *)
(* whichever of the sends fail; with K failed sends the reply reports       *)
(* sent = N-K and failed = K, the turn does not raise, and the sender's     *)
(* session is cleared.                                                      *)
C12_BroadcastFanOut ==
    [][\A u \in { a \in adminSessions : states[a].step = "admin_broadcast" },
          t \in { x \in Texts : ReachesRouter(x) } :
          TextTurn(u, t) =>
            LET N == Cardinality(Registered)
                K == Cardinality({ i \in 1..Len(sends') : ~sends'[i].ok })
            IN  /\ Len(sends') = N
                /\ \A id \in Registered :
                      Cardinality({ i \in 1..Len(sends') : sends'[i].to = id }) = 1
                /\ reply' = << "Broadcast complete. Sent " \o ToString(N - K)
                                \o ", failed " \o ToString(K) \o "." >>
                /\ states'[u] = NoState]_vars

\* A broadcast to two users of which one send failed.
C12_Witness ==
    /\ reply = <<"Broadcast complete. Sent 1, failed 1.">>
    /\ Len(sends) = 2 /\ sends[1].to # sends[2].to
    /\ sender \in adminSessions /\ states[sender] = NoState

\* The rejections that come from a call on the persistence collaborator.
PersistenceErrors == { "MongoError", "CastError", "ObjectParameterError",
                       "ValidationError" }

(* C13: no partial state transition on persistence failure.  When the       *)
(* handler of an update ends because a call on the persistence collaborator *)
(* rejected, the sender's session (step and data) is after the update what  *)
(* it was before it.                                                        *)
C13_NoAdvanceOnFailure ==
    [][\A u \in Users :
          (/\ sender' = u /\ turns' = turns + 1
           /\ Len(reply') > 0
           /\ reply'[Len(reply')] \in PersistenceErrors) => states'[u] = states[u]]_vars

\* The save of the onboarding weight was rejected: the chat is still at the
\* weight step and no weight is stored.
C13_Witness ==
    /\ dbDown /\ sender \in Users
    /\ reply = <<"MongoError">>
    /\ states[sender].step = "edit_profile_weight"
    /\ users[sender].exists
    /\ users[sender].profiles[1].age # Undefined
    /\ users[sender].profiles[1].weightKg = Undefined

\* Does the router's branch for the sender's step, given this text, get as far
\* as using the sender's User record?
UsesOwnRecord(u, t) ==
    LET step == states[u].step
        text == Trim(t)
    IN  /\ ReachesRouter(t)
        /\ \/ step \in OnboardingSteps /\ Numeric(t)
           \/ step \in { EditingStep(f) : f \in allowed }
           \/ step = "switch_profile" /\ Numeric(t)
                /\ Number(text) \in 1..Len(states[u].profiles)
           \/ step = "delete_profile"
           \/ step = "log_meal" /\ ~isNaN(Number(SplitSpace(text)[1]))
           \/ step = "message_trainer"

\* Is the text the id of no user, given to an elevated sender's role or removal step?
TargetsNoUser(u, t) ==
    /\ u \in adminSessions
    /\ states[u].step \in { "promote_user", "demote_user", "remove_user" }
    /\ ReachesRouter(t)
    /\ Numeric(t)
    /\ ~findOne(users, Number(Trim(t))).exists

(* C14: not-found handling.  A flow turn that refers to an absent entity -  *)
(* the sender has no User record in a profile, meal, switch/delete-profile  *)
(* or message_trainer step, or the id given to promote_user, demote_user or *)
(* remove_user is no user's - ends with a reply to the sender and with the  *)
(* sender's session cleared.                                                *)
C14_NotFoundHandled ==
    [][\A u \in Users, t \in Texts :
          (/\ \/ ~users[u].exists /\ UsesOwnRecord(u, t)
              \/ TargetsNoUser(u, t)
           /\ TextTurn(u, t))
            => /\ Len(reply') > 0 /\ ~Threw(reply')
               /\ states'[u] = NoState]_vars

\* Does some flow handler have a branch that takes a text of chat u in its
\* present step, rather than pass it on to the final fallback?
Consumes(u) ==
    \/ RouterHandles(u)
    \/ AdminReplyHandles(u)
    \/ AdminFallbackHandles(u)
    \/ states[u].step = "report_bug"

\* Chat u sends a text that is no trigger, and its session is no longer what it was.
MovesOn(u) ==
    \E t \in Texts \ Triggers : TextTurn(u, t) /\ states'[u] # states[u]

(* C15: no stuck flows.  Every stored session can be left through its own   *)
(* step's handler: the handler takes the owner's texts, and some text makes *)
(* it move the session on (to the next step of its chain or to no session); *)
(* the chains being finite, the owner can so reach no session without       *)
(* another flow's trigger overwriting the session.                          *)
C15_NoStuckFlows ==
    \A u \in Users :
        states[u] # NoState => (Consumes(u) /\ ENABLED MovesOn(u))

\* the text of the button on backKb
BackToMain == "Back to Main"

(* C16: explicit cancellation.  When a chat with a session sends the text   *)
(* of the cancel button shown with the flow's prompt, its session is        *)
(* deleted, no persisted record changes and no message is sent on to        *)
(* anybody.                                                                 *)
C16_BackCancels ==
    [][\A u \in Users :
          (states[u] # NoState /\ TextTurn(u, BackToMain)) =>
            /\ states'[u] = NoState
            /\ users' = users /\ relays' = relays /\ content' = content
            /\ sends' = <<>>]_vars

(* C17: the password challenge consumes the next turn.  Whatever the text   *)
(* of a turn sent at await_admin_pass (menu labels and commands included),  *)
(* the update's effect is that of the password branch on that text: the     *)
(* text is compared with the secret, the session is cleared, and no other   *)
(* handler acts.                                                            *)
C17_ChallengeConsumesTurn ==
    [][\A u \in { a \in Users : states[a].step = "await_admin_pass" }, t \in Texts :
          TextTurn(u, t) =>
            /\ \E o \in StepAwaitAdminPass(u, Trim(t)) : Commit(u, o)
            /\ states'[u] = NoState]_vars


---------------------------------------------------------------------------
---------------------------------------------------------------------------
\* The steps of the two chains, and where each may hand over to.
ChainSteps ==
    OnboardingSteps \cup { "editing_profile_field" } \cup { EditingStep(f) : f \in allowed }

ChainNext(step) ==
    CASE step = "edit_profile_full" -> { "edit_profile_weight" }
      [] step = "edit_profile_weight" -> { "edit_profile_height" }
      [] step = "edit_profile_height" -> { NoState.step }
      [] step = "editing_profile_field" -> { EditingStep(f) : f \in allowed }
      [] OTHER -> { NoState.step }

\* the update was a text of chat u that some bot.hears / bot.command / bot.start names
TriggerTurn(u) == sender' = u /\ \E t \in Triggers : TextTurn(u, t)

\* C19: no skipping or revisiting.  Whatever update is handled, the session of
\* a chat that is at a step of the onboarding chain (age, weight, height) or
\* of the editor chain (field, value) keeps its step or takes the chain's
\* immediately next step (none after the last), unless the update is a
\* top-level trigger sent by that chat, which may replace the session.
C19_NoSkipNoRevisit ==
    [][\A u \in { a \in Users : states[a].step \in ChainSteps } :
          \/ states'[u].step = states[u].step
          \/ states'[u].step \in ChainNext(states[u].step)
          \/ TriggerTurn(u)]_vars

\* Both chains were walked: the chat answered age and weight and is asked for
\* the height, or it named a field in the editor and is asked for the value.
C19_Witness ==
    \E u \in Users :
        /\ sender = u
        /\ users[u].exists
        /\ \/ /\ states[u].step = "edit_profile_height"
              /\ reply = <<"Send height in cm (number).">>
              /\ users[u].profiles[1].age # Undefined
              /\ users[u].profiles[1].weightKg # Undefined
           \/ /\ states[u].step = EditingStep("weight")
              /\ reply = <<"Send new value for the field.">>

---------------------------------------------------------------------------
\* No bot.on('text') branch takes a text of chat u: the router, the admin
\* reply, the admin fallback and the bug report all call next().
NoFlowHandler(u) ==
    /\ ~RouterHandles(u)
    /\ ~AdminReplyHandles(u)
    /\ ~AdminFallbackHandles(u)
    /\ states[u].step # "report_bug"

\* texts that no bot.start / bot.hears / bot.command names
PlainTexts == Texts \ Triggers

\* C20: the fallback leaves state untouched.  A text turn that no flow handler
\* takes and that is no command or menu trigger is answered with the "did not
\* understand" reply and nothing else: every chat's session, the elevation
\* set, the user records, the relays and the content are as they were, and
\* nothing is sent to any other chat.
C20_FallbackFrame ==
    [][\A u \in { a \in Users : NoFlowHandler(a) } :
          \/ sender' # u
          \/ /\ reply' = <<"I did not understand that.">>
             /\ states' = states
             /\ adminSessions' = adminSessions
             /\ users' = users
             /\ relays' = relays
             /\ content' = content
             /\ nextId' = nextId
             /\ sends' = <<>>
          \/ \A t \in PlainTexts : ~TextTurn(u, t)]_vars

\* The fallback answered a chat that holds a session no handler owns, and the
\* session is still there.
C20_Witness ==
    \E u \in Users :
        /\ sender = u
        /\ reply = <<"I did not understand that.">>
        /\ states[u].step = "set_water_times"


---------------------------------------------------------------------------
\* The chats a tick at minute hhmm reminds: User.find by reminder time.
WorkoutDue(hhmm) ==
    SetToSeq({ id \in Users : users[id].exists /\ users[id].workoutDailyAt = hhmm })

WaterDue(hhmm) ==
    SetToSeq({ id \in Users :
                 /\ users[id].exists
                 /\ \E i \in 1..Len(users[id].waterReminderTimes) :
                        users[id].waterReminderTimes[i] = hhmm })

\* one attempt of this kind to each chat of tos, in order
Attempts(tos, kind) == [i \in 1..Len(tos) |-> [to |-> tos[i], kind |-> kind]]

\* the recipients and kinds of a list of sends, whatever their outcome
Attempted(ss) == [i \in 1..Len(ss) |-> [to |-> ss[i].to, kind |-> ss[i].kind]]

---------------------------------------------------------------------------
\* the values the specification gives for a profile's fitness level
FitnessLevels == { "beginner", "intermediate", "advanced" }

\* C22: fitness level is an enum.  In every reachable state every profile's
\* fitnessLevel is one of beginner, intermediate, advanced.
C22_FitnessLevelEnum ==
    \A u \in Users :
        \A i \in 1..Len(users[u].profiles) :
            users[u].profiles[i].fitnessLevel \in FitnessLevels


---------------------------------------------------------------------------
\* the editor's value steps
ValueSteps == { EditingStep(f) : f \in allowed }

\* the profile property the editor writes for a field name
PropertyOf(field) ==
    CASE field = "age" -> "age"
      [] field = "weight" -> "weightKg"
      [] field = "height" -> "heightCm"
      [] field = "timeavailability" -> "timeAvailabilityMins"
      [] field = "targetdate" -> "goalTargetDate"
      [] field = "equipment" -> "equipment"
      [] field = "fitnesslevel" -> "fitnessLevel"
      [] field = "name" -> "name"
      [] field = "goal" -> "goal"

\* C23: one coherent mutation per successful editor turn.  A turn at step
\* editing_profile_<f> that ends with "Profile updated." changes, of all user
\* records, only property f of the profile whose id the session carries, and
\* appends one weight-history entry for that profile when f is weight.  The
\* profile's other properties, the user's other profiles, activeProfileId and
\* every other user's record are as before, also when the active profile is
\* no longer the one the session carries.
C23_OneCoherentMutation ==
    [][\A u \in { a \in Users : states[a].step \in ValueSteps } :
          (sender' = u /\ reply' = <<"Profile updated.">>) =>
              LET f == FieldOfStep(states[u].step)
                  i == FindIndex(users[u].profiles, states[u].profileId)
                  now == users'[u]
              IN  /\ i # 0
                  /\ now = [users[u] EXCEPT
                              !.profiles[i][PropertyOf(f)] = now.profiles[i][PropertyOf(f)],
                              !.weightHistory =
                                  IF f = "weight"
                                  THEN Append(@, [profileId |-> states[u].profileId,
                                                  value |-> now.profiles[i].weightKg])
                                  ELSE @]
                  /\ \A v \in Users \ {u} : users'[v] = users[v]]_vars

\* The editor wrote the weight of the first profile after a second profile was
\* added and made active.
C23_Witness ==
    \E u \in Users :
        /\ sender = u
        /\ reply = <<"Profile updated.">>
        /\ Len(users[u].profiles) = 2
        /\ users[u].activeProfileId = users[u].profiles[2].id
        /\ users[u].profiles[1].weightKg = 1
        /\ users[u].profiles[2].weightKg = Undefined
        /\ users[u].weightHistory = <<[profileId |-> users[u].profiles[1].id, value |-> 1]>>


---------------------------------------------------------------------------
\* The steps with a validation other than the number checks of C3.
CheckedSteps ==
    { "editing_profile_field", EditingStep("targetdate"), "switch_profile",
      "delete_profile", "browse_exercises", "set_daily_reminder",
      "set_water_reminders", "create_exercise", "create_workout",
      "create_challenge" }

\* idx is no position of a list of this length
BadIndex(t, len) ==
    LET idx == Number(Trim(t)) IN isNaN(idx) \/ idx < 1 \/ idx > len

\* The text is not what the step of chat u asks for.
Malformed(u, t) ==
    LET step == states[u].step
        text == Trim(t)
    IN  CASE step = "editing_profile_field" -> toLowerCase(text) \notin allowed
          [] step = EditingStep("targetdate") -> ~IsDate(text)
          [] step = "switch_profile" -> BadIndex(t, Len(states[u].profiles))
          [] step = "delete_profile" -> BadIndex(t, Len(users[u].profiles))
          [] step = "browse_exercises" -> BadIndex(t, states[u].list)
          [] step = "set_daily_reminder" -> ~IsTime(text)
          [] step = "set_water_reminders" ->
                /\ toLowerCase(text) # "off"
                /\ SelectSeq(SplitComma(text), IsTime) = <<>>
          [] step = "create_exercise" ->
                JSONparse(text) = "SyntaxError" /\ PipeParts(text) < 2
          [] step \in { "create_workout", "create_challenge" } ->
                JSONparse(text) = "SyntaxError"
          [] OTHER -> FALSE

\* C24: validation errors are recovered on the same step.  A text that is not
\* what the sender's step asks for (an unknown field name, an invalid date, an
\* index that is no number or out of range, a malformed time, content that
\* does not parse) leaves the sender's session, step and data, as it was and
\* changes no persisted record.
C24_InvalidInputRecovered ==
    [][\A u \in { a \in Users : states[a].step \in CheckedSteps }, t \in Texts :
          (Malformed(u, t) /\ TextTurn(u, t)) =>
              /\ states'[u] = states[u]
              /\ users' = users
              /\ relays' = relays
              /\ content' = content]_vars


---------------------------------------------------------------------------
\* The steps of the onboarding chain and of the editor that validate their input.
ValidatedSteps == NumericSteps \cup { EditingStep("targetdate") }

\* the text passes the validation of the step of chat u
Valid(u, t) ==
    IF states[u].step = EditingStep("targetdate") THEN IsDate(Trim(t)) ELSE Numeric(t)

\* What a text of chat u would leave behind: the session and the user record,
\* profiles and weight history included, for each way its handler can end.
After(u, t) ==
    { [session |-> o.states[u], user |-> o.users[u]] : o \in Dispatch(u, t) }

\* C25: re-entry after a failed validation is harmless.  After an input that
\* fails the validation of the sender's step, every valid input leaves the
\* session, the profile and the weight history exactly as it would have left
\* them had it been sent in place of the invalid one.
C25_ReentryHarmless ==
    [][\A u \in { a \in Users : states[a].step \in ValidatedSteps }, t \in Texts :
          (sender' = u /\ ~Valid(u, t) /\ TextTurn(u, t)) =>
              \A v \in { w \in Texts : Valid(u, w) } : After(u, v)' = After(u, v)]_vars


---------------------------------------------------------------------------
\* C26: message relay.  A text that reaches the router from a registered chat
\* at step message_trainer appends exactly one relay record (type message,
\* unread, from the sender, tagged with the sender's active profile), attempts
\* one notification to each chat of the elevation set and to no other, clears
\* the sender's session and confirms to the sender, whichever of the
\* notifications fail; no user record changes.
C26_MessageRelay ==
    [][\A u \in { a \in Registered : states[a].step = "message_trainer" },
          t \in { x \in Texts : ReachesRouter(x) } :
          TextTurn(u, t) =>
              /\ relays' = Append(relays, [fromId |-> u,
                                           profileId |-> users[u].activeProfileId,
                                           text |-> Trim(t), type |-> "message",
                                           read |-> FALSE])
              /\ [i \in 1..Len(sends') |-> sends'[i].to] = SetToSeq(adminSessions)
              /\ states'[u] = NoState
              /\ reply' = <<"Message sent to trainer/admin.">>
              /\ users' = users]_vars

\* A message was relayed although the one notification failed: the record is
\* there, and the sender's session is cleared.
C26_Witness ==
    \E u \in Users :
        /\ sender = u
        /\ reply = <<"Message sent to trainer/admin.">>
        /\ states[u] = NoState
        /\ Len(sends) = 1 /\ ~sends[1].ok /\ sends[1].to # u
        /\ Len(relays) = 1 /\ relays[1].fromId = u /\ ~relays[1].read


---------------------------------------------------------------------------
\* The update put chat u at a step it was not at before.
EntersStep(u) ==
    /\ sender' = u
    /\ states'[u].step \notin { states[u].step, NoState.step }

\* What the handler of the step just entered would write is not written: the
\* update's text has not been taken a second time, as that step's input.
NewStepNotRun(u) ==
    LET new == states'[u].step
        pid == states'[u].profileId
    IN  CASE new = "edit_profile_full" ->
                ProfileOf(users'[u], pid).age = Undefined
          [] new = "edit_profile_weight" ->
                /\ ProfileOf(users'[u], pid).weightKg = ProfileOf(users[u], pid).weightKg
                /\ users'[u].weightHistory = users[u].weightHistory
          [] new = "edit_profile_height" ->
                ProfileOf(users'[u], pid).heightCm = ProfileOf(users[u], pid).heightCm
          [] OTHER ->
                /\ adminSessions' = adminSessions
                /\ users' = users
                /\ relays' = relays
                /\ content' = content
                /\ sends' = <<>>

\* An elevated chat at admin_broadcast had its text taken as the broadcast.
BroadcastTurn(u) ==
    /\ u \in adminSessions
    /\ states[u].step = "admin_broadcast"
    /\ sender' = u
    /\ states'[u] = NoState

\* C27: at most one handler consumes a text turn.  An update changes no
\* session but the sender's; a broadcast turn makes one send to each
\* registered chat and no more, although two handlers have an admin_broadcast
\* branch; and an update that puts the sender at a new step does not also run
\* that step's handler on the same text.
C27_OneHandlerPerTurn ==
    [][\A u \in Users :
          /\ sender' = u => \A v \in Users \ {u} : states'[v] = states[v]
          /\ BroadcastTurn(u) =>
                /\ Len(sends') = Cardinality(Registered)
                /\ \A i, j \in 1..Len(sends') : sends'[i].to = sends'[j].to => i = j
                /\ Len(reply') = 1
          /\ EntersStep(u) => NewStepNotRun(u)]_vars

\* A broadcast reached both registered chats, once each, and both sends went
\* through.
C27_Witness ==
    /\ sender \in adminSessions
    /\ states[sender] = NoState
    /\ reply = <<"Broadcast complete. Sent 2, failed 0.">>
    /\ Len(sends) = 2
    /\ sends[1].to # sends[2].to


---------------------------------------------------------------------------
\* the steps whose handlers act for elevated chats only
PrivilegedSteps == AdminFallbackSteps \cup { "admin_reply" }

\* C28: a stale privileged session cannot be resumed.  A chat enters the
\* elevation set with no session at all, so a privileged step left over from
\* before a logout is gone by then; and a privileged step is written into a
\* session only by an update of a chat that is elevated before and after it.
\* Hence a privileged step held by an elevated chat was set during its
\* current elevation.
C28_NoStaleResume ==
    [][\A u \in Users :
          /\ (u \notin adminSessions /\ u \in adminSessions') => states'[u] = NoState
          /\ (states'[u].step \in PrivilegedSteps /\ states'[u] # states[u]) =>
                /\ sender' = u
                /\ u \in adminSessions
                /\ u \in adminSessions']_vars

\* A chat has logged out with a privileged step still in its session.
C28_Witness ==
    \E u \in Users :
        /\ sender = u
        /\ u \notin adminSessions
        /\ states[u].step \in PrivilegedSteps
        /\ reply = <<"Logged out of admin.">>


---------------------------------------------------------------------------
\* C29: the read flag of a relayed message is admin-only.  A relay record goes
\* from unread to read only in an update whose sender is in the elevation set
\* when it is handled, and no update changes the text, the sender or the type
\* of a record that exists, or removes one.
C29_ReadFlagAdminOnly ==
    [][/\ Len(relays') >= Len(relays)
       /\ \A i \in 1..Len(relays) :
            /\ relays'[i].text = relays[i].text
            /\ relays'[i].fromId = relays[i].fromId
            /\ relays'[i].type = relays[i].type
            /\ (~relays[i].read /\ relays'[i].read) => sender' \in adminSessions]_vars


---------------------------------------------------------------------------
\* C30: no secret, no elevation.  On a server with no admin password
\* configured, in every reachable state the elevation set is empty, no session
\* is at await_admin_pass or at a privileged step, and nothing a privileged
\* flow writes has been written: the content is the seeded content and every
\* user has the role user.
C30_NoSecretNoElevation ==
    ADMIN_PASS = Null =>
        /\ adminSessions = {}
        /\ \A u \in Users :
              /\ states[u].step # "await_admin_pass"
              /\ states[u].step \notin PrivilegedSteps
              /\ users[u].role = "user"
        /\ content = SeededContent

\* With no password configured a chat has sent /admin and was turned away
\* with its session left empty.
C30_Witness ==
    \E u \in Users :
        /\ ADMIN_PASS = Null
        /\ sender = u
        /\ reply = <<"No admin password set on server.">>
        /\ states[u] = NoState


---------------------------------------------------------------------------
\* Two decimal digits, zero-padded: moment's HH and mm tokens.
Pad2(n) ==
    LET Digit == <<"0", "1", "2", "3", "4", "5", "6", "7", "8", "9">>
    IN  Digit[(n \div 10) + 1] \o Digit[(n % 10) + 1]

\* moment().format('HH:mm') at every minute of a day
DayMinutes == { Pad2(h) \o ":" \o Pad2(m) : h \in 0..23, m \in 0..59 }

\* C31: accepted reminder times fire.  Every workout reminder time stored by
\* the set_daily_reminder flow is matched by the per-minute tick at some minute
\* of the day: there is a minute at which the tick's query finds the user.
C31_AcceptedTimesFire ==
    \A u \in Users :
        (users[u].exists /\ users[u].workoutDailyAt # "undefined") =>
            \E hhmm \in DayMinutes :
                \E i \in 1..Len(WorkoutDue(hhmm)) : WorkoutDue(hhmm)[i] = u

=============================================================================
